---- MODULE Spec2Model ----
(***************************************************************************)
(* Model of tu-backend/app.py: the /submit handler that validates a        *)
(* multipart submission, resolves or creates a per-student Drive folder,   *)
(* uploads up to five documents (delete-then-create overwrite) and appends *)
(* one row to a spreadsheet.                                               *)
(*                                                                         *)
(* A Python str is a sequence of one-character strings, so that replace,   *)
(* join, "in" and splitext are computed character by character.  Literals  *)
(* the code only concatenates (slot names, the link prefix and suffix, an  *)
(* object id) are single tokens of such a sequence.  A Python dict is a    *)
(* function whose DOMAIN is the set of keys present.                       *)
(***************************************************************************)
EXTENDS Integers, Sequences, FiniteSets, TLC

VARIABLES
    folders,     \* Drive: non-trashed folders under BASE_DRIVE_FOLDER_ID, [id, name]
    driveFiles,  \* Drive: non-trashed files, [id, name, parent]
    nextId,      \* Drive: the next object id the service hands out
    sheet,       \* Sheets: the rows of SHEET_NAME, in order
    clock,       \* requests received so far; datetime.utcnow() reads it
    req,         \* per worker thread: the locals of handle_submit and its response
    overlap      \* history: some request was received while another was in flight

vars == <<folders, driveFiles, nextId, sheet, clock, req, overlap>>

\* ---------------------------------------------------------------- bounds

\* Requests received in one behaviour.
MaxRequests == 2

\* Longest last name drawn for the folder-key specification.
MaxLen == 2

\* ------------------------------------------------------- Python helpers

\* find_folder / find_file_in_folder return None; ids start at 1.
None == 0

\* The empty str.
Empty == <<>>

Range(s) == {s[i] : i \in 1..Len(s)}

\* dict.get(k, default)
Get(d, k, default) == IF k \in DOMAIN d THEN d[k] ELSE default

\* d[k] = v
Put(d, k, v) == (k :> v) @@ d

\* Truth value of fields.get(k): None and "" are falsy.
FieldTruthy(fields, k) == k \in DOMAIN fields /\ fields[k] # Empty

\* files.get(k) taken as true whenever the part is there, its filename unread.
FileTruthy_present(files, k) == k \in DOMAIN files

\* Truth value of files.get(k): an uploaded part with an empty filename is falsy.
FileTruthy(files, k) == k \in DOMAIN files /\ files[k].filename # Empty

\* str.replace(old, new) for one-character old and new.
Replace(s, old, new) == [i \in 1..Len(s) |-> IF s[i] = old THEN new ELSE s[i]]

RECURSIVE Join(_, _)
\* sep.join(parts)
Join(sep, parts) ==
    IF Len(parts) = 0 THEN Empty
    ELSE IF Len(parts) = 1 THEN parts[1]
    ELSE parts[1] \o sep \o Join(sep, Tail(parts))

\* str.rfind(c), 1-based, 0 when absent.
RFind(s, c) ==
    LET at == {i \in 1..Len(s) : s[i] = c}
    IN  IF at = {} THEN 0 ELSE CHOOSE i \in at : \A j \in at : j <= i

\* os.path.splitext(p)[1]: from the last dot of the last path component, unless
\* that component has only dots before it.
splitext(p) ==
    LET sepIndex == RFind(p, "/")
        dotIndex == RFind(p, ".")
    IN  IF dotIndex > sepIndex /\ \E i \in (sepIndex + 1)..(dotIndex - 1) : p[i] # "."
        THEN SubSeq(p, dotIndex, Len(p))
        ELSE Empty

Unknown == <<"U", "n", "k", "n", "o", "w", "n">>

\* make_folder_name joining the components with nothing between them.
make_folder_name_nosep(fields) ==
    Replace(Replace(
        Join(Empty, <<Get(fields, "lastName", Unknown),
                      Get(fields, "firstName", Empty),
                      Get(fields, "degreeLevel", Empty),
                      Get(fields, "studentType", Empty)>>),
        " ", "_"), "/", "_")

\* "_".join([...]).replace(" ", "_").replace("/", "_")
make_folder_name(fields) ==
    Replace(Replace(
        Join(<<"_">>, <<Get(fields, "lastName", Unknown),
                        Get(fields, "firstName", Empty),
                        Get(fields, "degreeLevel", Empty),
                        Get(fields, "studentType", Empty)>>),
        " ", "_"), "/", "_")

\* -------------------------------------------------------------- handler

\* The required list with t1Country forgotten.
required_short ==
    <<"firstName", "lastName", "studentType", "degreeLevel", "gender",
      "birthDate", "personalEmail", "nationalCountry",
      "nationalID", "transcript1">>

\* handle_submit: the required list.
required ==
    <<"firstName", "lastName", "studentType", "degreeLevel", "gender",
      "birthDate", "personalEmail", "nationalCountry", "t1Country",
      "nationalID", "transcript1">>

\* handle_submit: the slots the upload loop walks, in order.
slots == <<"nationalID", "transcript1", "transcript2", "transcript3", "transcript4">>

True == <<"t", "r", "u", "e">>

\* termsConditions tested for truth instead of compared with "true".
TermsAccepted_truthy(fields) == Get(fields, "termsConditions", <<>>) # <<>>

\* fields.get("termsConditions") != "true", negated.
TermsAccepted(fields) == Get(fields, "termsConditions", <<"None">>) = True

\* Validation: the list handle_submit calls missing.
Missing(fields, files) ==
    SelectSeq(required, LAMBDA k : ~(FieldTruthy(fields, k) \/ FileTruthy(files, k)))
        \o (IF TermsAccepted(fields) THEN <<>> ELSE <<"termsConditions">>)

\* f"{k}Filename"
FilenameKey(k) == k \o "Filename"

\* The name a slot's file is stored under: the caller's <slot>Filename, else the
\* folder key, a dash and the slot; the upload's extension appended when the
\* name has no dot.
DriveFilename(fields, files, folder_name, k) ==
    LET given == Get(fields, FilenameKey(k), Empty)
        ext   == splitext(files[k].filename)
        name  == IF given = Empty THEN folder_name \o <<"-", k>> \o ext ELSE given
    IN  IF "." \notin Range(name) THEN name \o ext ELSE name

\* upload_file_to_drive: the link it returns for the object it created.
Link(id) == <<"https://drive.google.com/file/d/", ToString(id), "/view?usp=sharing">>

\* datetime.utcnow().isoformat()
Timestamp(t) == <<ToString(t)>>

\* The row with the national ID link and the national country swapped, and
\* middleName read without a default.
Row_swapped(fields, links, now) ==
    <<Get(fields, "firstName", Empty), Get(fields, "middleName", <<"None">>),
      Get(fields, "lastName", Empty), Get(fields, "additionalName", Empty),
      Get(fields, "studentType", Empty), Get(fields, "degreeLevel", Empty),
      Get(fields, "gender", Empty), Get(fields, "birthDate", Empty),
      Get(fields, "personalEmail", Empty), Get(fields, "notes", Empty),
      Get(fields, "nationalCountry", Empty), links["nationalID"],
      links["transcript1"], Get(fields, "t1Country", Empty),
      links["transcript2"], Get(fields, "t2Country", Empty),
      links["transcript3"], Get(fields, "t3Country", Empty),
      links["transcript4"], Get(fields, "t4Country", Empty),
      Get(fields, "termsConditions", Empty),
      Timestamp(now)>>

\* The row handle_submit builds.
Row(fields, links, now) ==
    <<Get(fields, "firstName", Empty), Get(fields, "middleName", Empty),
      Get(fields, "lastName", Empty), Get(fields, "additionalName", Empty),
      Get(fields, "studentType", Empty), Get(fields, "degreeLevel", Empty),
      Get(fields, "gender", Empty), Get(fields, "birthDate", Empty),
      Get(fields, "personalEmail", Empty), Get(fields, "notes", Empty),
      links["nationalID"], Get(fields, "nationalCountry", Empty),
      links["transcript1"], Get(fields, "t1Country", Empty),
      links["transcript2"], Get(fields, "t2Country", Empty),
      links["transcript3"], Get(fields, "t3Country", Empty),
      links["transcript4"], Get(fields, "t4Country", Empty),
      Get(fields, "termsConditions", Empty),
      Timestamp(now)>>

NoError == [msg |-> "", list |-> <<>>]

\* A worker thread with no request.
NewReq ==
    [pc |-> "idle", fields |-> <<>>, files |-> <<>>, folder_name |-> Empty,
     folder_id |-> None, links |-> <<>>, k |-> 1, drive_filename |-> Empty,
     file_id |-> None, status |-> 0, error |-> NoError, success |-> FALSE,
     calls |-> 0]

RECURSIVE Loop(_)
\* The upload loop from slot q.k up to its next remote call: a slot with no
\* file gets the empty link; a slot with a file stops at the lookup of its name.
Loop(q) ==
    IF q.k > Len(slots) THEN [q EXCEPT !.pc = "sheets"]
    ELSE LET s == slots[q.k]
         IN  IF FileTruthy(q.files, s)
             THEN [q EXCEPT !.pc = "find_file",
                            !.drive_filename =
                                DriveFilename(q.fields, q.files, q.folder_name, s)]
             ELSE Loop([q EXCEPT !.links = Put(@, s, Empty), !.k = @ + 1])

\* The pc values at which the handler is blocked in a remote call.
RemoteSteps ==
    {"drive", "find_folder", "create_folder", "find_file", "delete", "upload",
     "sheets", "append"}

InFlight(q) == q.pc \in RemoteSteps

\* The request is read and validated; a missing item answers 400 at once.
Receive(r, inputs) ==
    /\ req[r].pc \in {"idle", "done"}
    /\ clock < MaxRequests
    /\ \E sub \in inputs :
          LET missing == Missing(sub.fields, sub.files)
              q == [NewReq EXCEPT !.fields = sub.fields, !.files = sub.files]
          IN  /\ req' = [req EXCEPT ![r] =
                    IF missing # <<>>
                    THEN [q EXCEPT !.pc = "done", !.status = 400,
                                   !.error = [msg |-> "Missing required fields: ",
                                              list |-> missing]]
                    ELSE [q EXCEPT !.pc = "drive"]]
              /\ overlap' = (overlap \/ (missing = <<>> /\
                                \E o \in DOMAIN req \ {r} : InFlight(req[o])))
    /\ clock' = clock + 1
    /\ UNCHANGED <<folders, driveFiles, nextId, sheet>>

\* get_drive_service(), then the folder key.
GetDriveService(r) ==
    /\ req[r].pc = "drive"
    /\ req' = [req EXCEPT ![r] =
                  [@ EXCEPT !.pc = "find_folder", !.calls = @ + 1,
                            !.folder_name = make_folder_name(req[r].fields)]]
    /\ UNCHANGED <<folders, driveFiles, nextId, sheet, clock, overlap>>

\* find_folder's query asking for trashed folders: the handler trashes none.
FolderMatches_trashed(folder_name) == {f \in folders : f.name = folder_name /\ f.id = None}

\* find_folder's query: the non-trashed folders of that name under the root.
FolderMatches(folder_name) == {f \in folders : f.name = folder_name}

\* find_folder: the first match the service lists, in whatever order it lists.
FindFolder(r) ==
    /\ req[r].pc = "find_folder"
    /\ LET found == FolderMatches(req[r].folder_name)
       IN  IF found = {}
           THEN req' = [req EXCEPT ![r] =
                           [@ EXCEPT !.pc = "create_folder", !.calls = @ + 1,
                                     !.folder_id = None]]
           ELSE \E f \in found :
                   req' = [req EXCEPT ![r] =
                              Loop([@ EXCEPT !.calls = @ + 1, !.folder_id = f.id])]
    /\ UNCHANGED <<folders, driveFiles, nextId, sheet, clock, overlap>>

\* create_folder looking again and reusing a folder of that name when there is one.
CreateFolder_ifabsent(r) ==
    /\ req[r].pc = "create_folder"
    /\ LET found == FolderMatches(req[r].folder_name)
       IN  IF found = {}
           THEN /\ folders' = folders \cup {[id |-> nextId, name |-> req[r].folder_name]}
                /\ nextId' = nextId + 1
                /\ req' = [req EXCEPT ![r] =
                              Loop([@ EXCEPT !.calls = @ + 1, !.folder_id = nextId])]
           ELSE /\ \E f \in found :
                      req' = [req EXCEPT ![r] =
                                 Loop([@ EXCEPT !.calls = @ + 1, !.folder_id = f.id])]
                /\ UNCHANGED <<folders, nextId>>
    /\ UNCHANGED <<driveFiles, sheet, clock, overlap>>

\* create_folder
CreateFolder(r) ==
    /\ req[r].pc = "create_folder"
    /\ folders' = folders \cup {[id |-> nextId, name |-> req[r].folder_name]}
    /\ nextId' = nextId + 1
    /\ req' = [req EXCEPT ![r] =
                  Loop([@ EXCEPT !.calls = @ + 1, !.folder_id = nextId])]
    /\ UNCHANGED <<driveFiles, sheet, clock, overlap>>

\* find_file_in_folder's query with the folder left out and the root asked.
FileMatches_root(folder_id, filename) ==
    {f \in driveFiles : f.name = filename /\ f.parent = None}

\* find_file_in_folder's query: the non-trashed files of that name in the folder.
FileMatches(folder_id, filename) ==
    {f \in driveFiles : f.name = filename /\ f.parent = folder_id}

\* upload_file_to_drive: the lookup of the old file.
FindFile(r) ==
    /\ req[r].pc = "find_file"
    /\ LET found == FileMatches(req[r].folder_id, req[r].drive_filename)
       IN  IF found = {}
           THEN req' = [req EXCEPT ![r] =
                           [@ EXCEPT !.pc = "upload", !.calls = @ + 1,
                                     !.file_id = None]]
           ELSE \E f \in found :
                   req' = [req EXCEPT ![r] =
                              [@ EXCEPT !.pc = "delete", !.calls = @ + 1,
                                        !.file_id = f.id]]
    /\ UNCHANGED <<folders, driveFiles, nextId, sheet, clock, overlap>>

\* upload_file_to_drive: the old file is deleted (a file already gone makes the
\* call raise, which is RemoteError).
DeleteFile(r) ==
    /\ req[r].pc = "delete"
    /\ \E f \in driveFiles : f.id = req[r].file_id
    /\ driveFiles' = {f \in driveFiles : f.id # req[r].file_id}
    /\ req' = [req EXCEPT ![r] = [@ EXCEPT !.pc = "upload", !.calls = @ + 1]]
    /\ UNCHANGED <<folders, nextId, sheet, clock, overlap>>

\* upload_file_to_drive: the new file is created and its link returned; the
\* loop goes on to the next slot.
UploadFile(r) ==
    /\ req[r].pc = "upload"
    /\ driveFiles' = driveFiles \cup
          {[id |-> nextId, name |-> req[r].drive_filename, parent |-> req[r].folder_id]}
    /\ nextId' = nextId + 1
    /\ req' = [req EXCEPT ![r] =
                  Loop([@ EXCEPT !.calls = @ + 1, !.file_id = nextId,
                                 !.links = Put(@, slots[req[r].k], Link(nextId)),
                                 !.k = @ + 1])]
    /\ UNCHANGED <<folders, sheet, clock, overlap>>

\* get_sheets_service()
GetSheetsService(r) ==
    /\ req[r].pc = "sheets"
    /\ req' = [req EXCEPT ![r] = [@ EXCEPT !.pc = "append", !.calls = @ + 1]]
    /\ UNCHANGED <<folders, driveFiles, nextId, sheet, clock, overlap>>

\* The row is appended and the success response returned.
AppendRow(r) ==
    /\ req[r].pc = "append"
    /\ sheet' = Append(sheet, Row(req[r].fields, req[r].links, clock))
    /\ req' = [req EXCEPT ![r] =
                  [@ EXCEPT !.pc = "done", !.calls = @ + 1, !.status = 200,
                            !.success = TRUE]]
    /\ UNCHANGED <<folders, driveFiles, nextId, clock, overlap>>

\* The exception handler undoing the request's uploads before it answers.
RemoteError_rollback(r) ==
    /\ req[r].pc \in RemoteSteps
    /\ driveFiles' = {f \in driveFiles :
                          \A s \in DOMAIN req[r].links : req[r].links[s] # Link(f.id)}
    /\ req' = [req EXCEPT ![r] =
                  [@ EXCEPT !.pc = "done", !.calls = @ + 1, !.status = 500,
                            !.error = [msg |-> req[r].pc, list |-> <<>>]]]
    /\ UNCHANGED <<folders, nextId, sheet, clock, overlap>>

\* The remote call the handler is blocked in raises: except Exception answers
\* 500 with the error text.
RemoteError(r) ==
    /\ req[r].pc \in RemoteSteps
    /\ req' = [req EXCEPT ![r] =
                  [@ EXCEPT !.pc = "done", !.calls = @ + 1, !.status = 500,
                            !.error = [msg |-> req[r].pc, list |-> <<>>]]]
    /\ UNCHANGED <<folders, driveFiles, nextId, sheet, clock, overlap>>

\* --------------------------------------------------------------- inputs

Remove(d, k) == [x \in DOMAIN d \ {k} |-> d[x]]

File(name) == [filename |-> name]

BaseFields ==
    [firstName |-> <<"D">>, lastName |-> <<"N">>, studentType |-> <<"S">>,
     degreeLevel |-> <<"M">>, gender |-> <<"F">>, birthDate |-> <<"1">>,
     personalEmail |-> <<"e">>, nationalCountry |-> <<"U">>, t1Country |-> <<"U">>,
     termsConditions |-> True]

BaseFiles ==
    [nationalID |-> File(<<"i", ".", "p">>), transcript1 |-> File(<<"t", ".", "p">>)]

BaseSub == [fields |-> BaseFields, files |-> BaseFiles]

\* Two submissions of one student (the second names its transcript itself, with
\* the name the first falls back to) and one of another student, the national
\* ID given as text, so each uploads one file; and one of the first student
\* with two files named alike.
ConcSubs ==
    LET text == [fields |-> Put(BaseFields, "nationalID", <<"7">>),
                 files  |-> Remove(BaseFiles, "nationalID")]
    IN  { text,
          [text EXCEPT !.fields = Put(@, "transcript1Filename",
                                      <<"N", "_", "D", "_", "M", "_", "S",
                                        "-", "transcript1", ".", "p">>)],
          [text EXCEPT !.fields = Put(@, "lastName", <<"O">>)],
          [fields |-> [nationalIDFilename |-> <<"d", ".", "p">>,
                       transcript1Filename |-> <<"d">>] @@ BaseFields,
           files  |-> BaseFiles] }

\* One worker's submissions for the upload loop and the row: the plain one; one
\* of another student with the national ID as text, a named transcript, a second
\* transcript and optional fields; one naming two slots alike; one with an
\* empty file part, an empty <slot>Filename and a file without extension; one
\* with all five slots and every optional field; one without the terms.
PipeSubs ==
    { BaseSub,
      [fields |-> [x \in {"lastName", "nationalID", "middleName", "t2Country",
                          "transcript1Filename"} |->
                      CASE x = "lastName" -> <<"O">>
                        [] x = "nationalID" -> <<"7">>
                        [] x = "middleName" -> <<"m">>
                        [] x = "t2Country" -> <<"V">>
                        [] OTHER -> <<"d">>] @@ BaseFields,
       files  |-> [transcript1 |-> File(<<"t", ".", "p">>),
                   transcript2 |-> File(<<"u", ".", "q">>)]],
      [fields |-> [nationalIDFilename |-> <<"d", ".", "p">>,
                   transcript1Filename |-> <<"d">>] @@ BaseFields,
       files  |-> BaseFiles],
      [fields |-> [nationalID |-> <<"7">>, transcript1Filename |-> Empty] @@ BaseFields,
       files  |-> [nationalID |-> File(Empty), transcript1 |-> File(<<"t">>)]],
      [fields |-> [middleName |-> <<"m">>, additionalName |-> <<"a">>,
                   notes |-> <<"n">>, t2Country |-> <<"V">>, t3Country |-> <<"W">>,
                   t4Country |-> <<"X">>] @@ BaseFields,
       files  |-> [transcript2 |-> File(<<"u", ".", "q">>),
                   transcript3 |-> File(<<"a", "/", "v", ".", "r">>),
                   transcript4 |-> File(<<".", "p">>)] @@ BaseFiles],
      [fields |-> Remove(BaseFields, "termsConditions"), files |-> BaseFiles] }

\* A required item left as it is, left out, or sent empty (an empty field, or a
\* file part with no filename).
Perturb(sub, k, how) ==
    CASE how = "absent" ->
            [fields |-> Remove(sub.fields, k), files |-> Remove(sub.files, k)]
      [] how = "empty" ->
            IF k \in DOMAIN BaseFiles
            THEN [fields |-> Remove(sub.fields, k), files |-> Put(sub.files, k, File(Empty))]
            ELSE [fields |-> Put(sub.fields, k, Empty), files |-> sub.files]
      [] OTHER -> sub

\* The values of termsConditions drawn; "absent" leaves the field out.
TermsValues == {"absent", Empty, True, <<"T", "r", "u", "e">>, <<"1">>}

WithTerms(sub, v) ==
    [sub EXCEPT !.fields = IF v = "absent" THEN Remove(@, "termsConditions")
                           ELSE Put(@, "termsConditions", v)]

\* One worker's submissions for validation: the plain one with up to two of its
\* items left out or empty, and each value of termsConditions.
ValSubs ==
    { WithTerms(Perturb(Perturb(BaseSub, k1, h1), k2, h2), v) :
        k1 \in DOMAIN BaseFields \cup DOMAIN BaseFiles, h1 \in {"keep", "absent"},
        k2 \in DOMAIN BaseFields \cup DOMAIN BaseFiles, h2 \in {"keep", "absent", "empty"},
        v \in TermsValues }

\* The characters of a last name drawn for the folder key.
KeyChars == {"a", "_", " ", "/"}

\* The last names drawn: every non-empty string of up to MaxLen characters.
KeyStrs == UNION {[1..n -> KeyChars] : n \in 1..MaxLen}

\* The identity fields drawn for the folder key.
KeyFields ==
    { [lastName |-> a, firstName |-> b, degreeLevel |-> c, studentType |-> <<"S">>] :
        a \in KeyStrs,
        b \in {<<"a">>, <<"a", "a">>, <<"_", "a">>, <<" ", "a">>, <<"a", "/">>},
        c \in {<<"M">>, <<"_">>} }

Init ==
    /\ folders = {}
    /\ driveFiles = {}
    /\ nextId = 1
    /\ sheet = <<>>
    /\ clock = 0
    /\ req = [r \in {1, 2} |-> NewReq]
    /\ overlap = FALSE

Next ==
    \/ \E r \in DOMAIN req : Receive(r, ConcSubs)
    \/ \E r \in DOMAIN req : GetDriveService(r)
    \/ \E r \in DOMAIN req : FindFolder(r)
    \/ \E r \in DOMAIN req : CreateFolder(r)
    \/ \E r \in DOMAIN req : FindFile(r)
    \/ \E r \in DOMAIN req : DeleteFile(r)
    \/ \E r \in DOMAIN req : UploadFile(r)
    \/ \E r \in DOMAIN req : GetSheetsService(r)
    \/ \E r \in DOMAIN req : AppendRow(r)
    \/ \E r \in DOMAIN req : RemoteError(r)

\* Two worker threads serving overlapping requests.
Spec == Init /\ [][Next]_vars

InitOne ==
    /\ folders = {}
    /\ driveFiles = {}
    /\ nextId = 1
    /\ sheet = <<>>
    /\ clock = 0
    /\ req = [r \in {1} |-> NewReq]
    /\ overlap = FALSE

NextSeq ==
    \/ \E r \in DOMAIN req : Receive(r, PipeSubs)
    \/ \E r \in DOMAIN req : GetDriveService(r)
    \/ \E r \in DOMAIN req : FindFolder(r)
    \/ \E r \in DOMAIN req : CreateFolder(r)
    \/ \E r \in DOMAIN req : FindFile(r)
    \/ \E r \in DOMAIN req : DeleteFile(r)
    \/ \E r \in DOMAIN req : UploadFile(r)
    \/ \E r \in DOMAIN req : GetSheetsService(r)
    \/ \E r \in DOMAIN req : AppendRow(r)
    \/ \E r \in DOMAIN req : RemoteError(r)

\* One worker thread serving one request after another.
SeqSpec == InitOne /\ [][NextSeq]_vars

NextVal ==
    \/ \E r \in DOMAIN req : Receive(r, ValSubs)
    \/ \E r \in DOMAIN req : GetDriveService(r)
    \/ \E r \in DOMAIN req : FindFolder(r)
    \/ \E r \in DOMAIN req : CreateFolder(r)
    \/ \E r \in DOMAIN req : FindFile(r)
    \/ \E r \in DOMAIN req : DeleteFile(r)
    \/ \E r \in DOMAIN req : UploadFile(r)
    \/ \E r \in DOMAIN req : GetSheetsService(r)
    \/ \E r \in DOMAIN req : AppendRow(r)
    \/ \E r \in DOMAIN req : RemoteError(r)

\* One worker thread, the submissions varying in what validation reads.
ValSpec == InitOne /\ [][NextVal]_vars

\* make_folder_name applied to the identity fields drawn.
MakeFolderName(r) ==
    /\ req[r].pc = "key"
    /\ req' = [req EXCEPT ![r] =
                  [@ EXCEPT !.pc = "named",
                            !.folder_name = make_folder_name(req[r].fields)]]
    /\ UNCHANGED <<folders, driveFiles, nextId, sheet, clock, overlap>>

InitKey ==
    /\ folders = {}
    /\ driveFiles = {}
    /\ nextId = 1
    /\ sheet = <<>>
    /\ clock = 0
    /\ \E f \in KeyFields : req = [r \in {1} |-> [NewReq EXCEPT !.pc = "key", !.fields = f]]
    /\ overlap = FALSE

NextKey == \E r \in DOMAIN req : MakeFolderName(r)

\* The folder key as a function of the identity fields.
KeySpec == InitKey /\ [][NextKey]_vars

\* --------------------------------------------------------------- claims

Workers == DOMAIN req

\* The required list as the specification gives it.
RequiredItems ==
    {"firstName", "lastName", "studentType", "degreeLevel", "gender", "birthDate",
     "personalEmail", "nationalCountry", "t1Country", "nationalID", "transcript1"}

SlotSet == {"nationalID", "transcript1", "transcript2", "transcript3", "transcript4"}

\* Present neither as a form field nor as a file part.
Absent(q, k) == k \notin DOMAIN q.fields /\ k \notin DOMAIN q.files

\* No non-empty form value and no file part with a non-empty filename.
NoValue(q, k) ==
    /\ (k \in DOMAIN q.fields => q.fields[k] = Empty)
    /\ (k \in DOMAIN q.files => q.files[k].filename = Empty)

TermsLiterallyTrue(q) ==
    /\ "termsConditions" \in DOMAIN q.fields
    /\ q.fields["termsConditions"] = <<"t", "r", "u", "e">>

Listed(q) == Range(q.error.list)

\* C1 as stated: a request with a required item present neither as a field nor
\* as a file ends 400, lists exactly the items that are present in neither way
\* (and termsConditions when it is not "true"), and made no remote call.
C1_AbsentListedExactly ==
    \A r \in Workers :
        (req[r].pc = "done" /\ \E k \in RequiredItems : Absent(req[r], k)) =>
            /\ req[r].status = 400
            /\ Listed(req[r]) \ {"termsConditions"} =
                   {k \in RequiredItems : Absent(req[r], k)}
            /\ ("termsConditions" \in Listed(req[r])) <=> ~TermsLiterallyTrue(req[r])
            /\ req[r].calls = 0

\* C1 amended: a request with a required item that has no non-empty field value
\* and no file with a non-empty filename ends 400, lists exactly those items,
\* each once (and termsConditions when it is not "true"), and made no remote
\* call.
C1_ValuelessListedExactly ==
    \A r \in Workers :
        (req[r].pc = "done" /\ \E k \in RequiredItems : NoValue(req[r], k)) =>
            /\ req[r].status = 400
            /\ Listed(req[r]) \ {"termsConditions"} =
                   {k \in RequiredItems : NoValue(req[r], k)}
            /\ Len(req[r].error.list) = Cardinality(Listed(req[r]))
            /\ ("termsConditions" \in Listed(req[r])) <=> ~TermsLiterallyTrue(req[r])
            /\ req[r].calls = 0

\* A 400 whose list names an item left out and an item sent empty.
C1_Witness ==
    \E r \in Workers :
        /\ req[r].pc = "done" /\ req[r].status = 400 /\ req[r].calls = 0
        /\ \E k1, k2 \in Listed(req[r]) :
              /\ Absent(req[r], k1)
              /\ ~Absent(req[r], k2) /\ NoValue(req[r], k2) /\ k2 \in RequiredItems

\* C4: a request whose termsConditions is not exactly "true" ends 400 with
\* termsConditions in the list, whatever else it carries; one whose
\* termsConditions is "true" never has it listed.
C4_TermsLiteral ==
    \A r \in Workers :
        req[r].pc # "idle" =>
            /\ ~TermsLiterallyTrue(req[r]) =>
                  /\ req[r].pc = "done" /\ req[r].status = 400
                  /\ "termsConditions" \in Listed(req[r])
            /\ TermsLiterallyTrue(req[r]) => "termsConditions" \notin Listed(req[r])

\* Everything required is there and termsConditions is "True": the 400 lists
\* termsConditions alone.
C4_Witness ==
    \E r \in Workers :
        /\ req[r].pc = "done" /\ req[r].status = 400
        /\ "termsConditions" \in DOMAIN req[r].fields
        /\ req[r].fields["termsConditions"] = <<"T", "r", "u", "e">>
        /\ req[r].error.list = <<"termsConditions">>

\* A request ends with the success response in this step.
Succeeds(r) == req[r].pc # "done" /\ req'[r].pc = "done" /\ req'[r].status = 200

\* No file was uploaded for the slot: no part, or a part with no filename.
NoUpload(q, s) == s \notin DOMAIN q.files \/ q.files[s].filename = Empty

\* The column of the row that holds a slot's link.
LinkColumn(s) ==
    CASE s = "nationalID" -> 11
      [] s = "transcript1" -> 13
      [] s = "transcript2" -> 15
      [] s = "transcript3" -> 17
      [] s = "transcript4" -> 19

\* C6: when a request succeeds, its links have exactly the five slot keys, and
\* a slot with no uploaded file has the empty string both in the links and in
\* its cell of the row just appended.
C6_AbsentSlotEmptyLink ==
    [][\A r \in Workers :
          Succeeds(r) =>
              /\ DOMAIN req'[r].links = SlotSet
              /\ Len(sheet') = Len(sheet) + 1
              /\ \A s \in SlotSet :
                    NoUpload(req'[r], s) =>
                        /\ req'[r].links[s] = <<>>
                        /\ sheet'[Len(sheet')][LinkColumn(s)] = <<>>]_vars

\* A success with a slot left out, a slot sent as an empty file part, and a
\* slot uploaded.
C6_Witness ==
    \E r \in Workers :
        /\ req[r].pc = "done" /\ req[r].status = 200
        /\ \E s1, s2, s3 \in SlotSet :
              /\ s1 \notin DOMAIN req[r].files /\ req[r].links[s1] = <<>>
              /\ s2 \in DOMAIN req[r].files /\ NoUpload(req[r], s2)
              /\ req[r].links[s2] = <<>>
              /\ req[r].links[s3] # <<>>
        /\ Len(sheet) >= 1

\* The 22 columns as the specification orders them.
Columns ==
    <<[field |-> "firstName"], [field |-> "middleName"], [field |-> "lastName"],
      [field |-> "additionalName"], [field |-> "studentType"],
      [field |-> "degreeLevel"], [field |-> "gender"], [field |-> "birthDate"],
      [field |-> "personalEmail"], [field |-> "notes"],
      [link |-> "nationalID"], [field |-> "nationalCountry"],
      [link |-> "transcript1"], [field |-> "t1Country"],
      [link |-> "transcript2"], [field |-> "t2Country"],
      [link |-> "transcript3"], [field |-> "t3Country"],
      [link |-> "transcript4"], [field |-> "t4Country"],
      [field |-> "termsConditions"], [timestamp |-> TRUE]>>

\* What a column holds for a request: the field's value or the empty string,
\* the slot's link as the response gives it, or a timestamp.
CellOK(q, col, cell) ==
    IF "field" \in DOMAIN col
    THEN cell = (IF col.field \in DOMAIN q.fields THEN q.fields[col.field] ELSE <<>>)
    ELSE IF "link" \in DOMAIN col
    THEN cell = q.links[col.link]
    ELSE cell # <<>>

\* C7: a request that succeeds appends exactly one row of 22 cells in the fixed
\* order, link cells as in the response and unsupplied fields empty; every
\* step leaves the rows already there as they are, and only a success adds one.
C7_OneRowOf22 ==
    [][/\ \A r \in Workers :
             Succeeds(r) =>
                 /\ Len(sheet') = Len(sheet) + 1
                 /\ Len(sheet'[Len(sheet')]) = 22
                 /\ \A i \in 1..22 :
                       CellOK(req'[r], Columns[i], sheet'[Len(sheet')][i])
       /\ Len(sheet') >= Len(sheet)
       /\ SubSeq(sheet', 1, Len(sheet)) = sheet
       /\ sheet' # sheet => \E r \in Workers : Succeeds(r)]_vars

\* Two rows, the second from a request with an optional field supplied and
\* another left out.
C7_Witness ==
    \E r \in Workers :
        /\ req[r].pc = "done" /\ req[r].status = 200
        /\ Len(sheet) = 2
        /\ "middleName" \in DOMAIN req[r].fields
        /\ "notes" \notin DOMAIN req[r].fields
        /\ sheet[2][2] = req[r].fields["middleName"]
        /\ sheet[2][10] = <<>>
        /\ sheet[2][15] # <<>>

\* C10 as stated: when a request served alone succeeds, every non-empty link of
\* its response references a file that exists in the resolved folder.
C10_LinksLive ==
    \A r \in Workers :
        (req[r].pc = "done" /\ req[r].status = 200 /\ ~overlap) =>
            \A s \in SlotSet :
                req[r].links[s] # <<>> =>
                    \E f \in driveFiles :
                        Link(f.id) = req[r].links[s] /\ f.parent = req[r].folder_id

\* A request ends in this step, with whatever status.
Completes(r) == req[r].pc # "done" /\ req'[r].pc = "done"

\* The slots of a request that carry a file to upload.
Uploaded(q) == {s \in SlotSet : ~NoUpload(q, s)}

\* The name the request stores a slot's file under.
Target(q, s) == DriveFilename(q.fields, q.files, q.folder_name, s)

\* No folder holds two files of one name.
NoDuplicateNames(store) ==
    \A f1, f2 \in store : (f1.parent = f2.parent /\ f1.name = f2.name) => f1.id = f2.id

\* When request r succeeds leaving the files `store`: each name it uploaded
\* under is the name of exactly one file of its folder, and that file is one
\* the response links to.
OneFilePerTarget(q, store) ==
    \A s \in Uploaded(q) :
        LET named == {f \in store : f.parent = q.folder_id /\ f.name = Target(q, s)}
        IN  /\ Cardinality(named) = 1
            /\ \A f \in named : \E s2 \in Uploaded(q) : q.links[s2] = Link(f.id)

\* C2 as stated: whenever a request completes, no folder holds two files of one
\* name, and each name a successful request uploaded under names exactly one
\* file of its folder, the newly uploaded one.
C2_OneFilePerName ==
    [][\A r \in Workers :
          /\ Completes(r) => NoDuplicateNames(driveFiles')
          /\ Succeeds(r) => OneFilePerTarget(req'[r], driveFiles')]_vars

\* C2 amended: the same, for requests served one at a time (none received
\* while another was in flight).
C2_OneFilePerNameSequential ==
    [][\A r \in Workers :
          ~overlap' =>
              /\ Completes(r) => NoDuplicateNames(driveFiles')
              /\ Succeeds(r) => OneFilePerTarget(req'[r], driveFiles')]_vars

\* A second request, served after the first, has replaced the first one's file:
\* the first response's link is to a file that is gone, the name has one file.
C2_Witness ==
    /\ ~overlap
    /\ \E r1, r2 \in Workers :
          /\ r1 # r2
          /\ req[r1].pc = "done" /\ req[r1].status = 200
          /\ req[r2].pc = "done" /\ req[r2].status = 200
          /\ req[r1].folder_id = req[r2].folder_id
          /\ Target(req[r1], "transcript1") = Target(req[r2], "transcript1")
          /\ ~\E f \in driveFiles : Link(f.id) = req[r1].links["transcript1"]
          /\ \E f \in driveFiles : Link(f.id) = req[r2].links["transcript1"]
          /\ Cardinality(driveFiles) = 1

\* The four identity fields of a request.
Identity(q) ==
    <<q.fields["lastName"], q.fields["firstName"], q.fields["degreeLevel"],
      q.fields["studentType"]>>

\* The request has a folder: found, or created.
Resolved(q) == q.pc \notin {"idle", "drive", "find_folder", "create_folder"} /\ q.folder_id # None

\* C3: while requests are served one at a time, no two folders under the root
\* have one name, and requests with the same four identity fields resolve to
\* the same folder.
C3_SameFolderSequential ==
    ~overlap =>
        /\ \A f1, f2 \in folders : f1.name = f2.name => f1.id = f2.id
        /\ \A r1, r2 \in Workers :
              (Resolved(req[r1]) /\ Resolved(req[r2])
                  /\ Identity(req[r1]) = Identity(req[r2])) =>
                  req[r1].folder_id = req[r2].folder_id

\* Two requests of one student, one served after the other, both succeeded in
\* the one folder there is.
C3_Witness ==
    /\ ~overlap
    /\ \E r1, r2 \in Workers :
          /\ r1 # r2
          /\ req[r1].pc = "done" /\ req[r1].status = 200
          /\ req[r2].pc = "done" /\ req[r2].status = 200
          /\ Identity(req[r1]) = Identity(req[r2])
          /\ req[r1].folder_id = req[r2].folder_id
          /\ Cardinality(folders) = 1
          /\ Len(sheet) = 2

\* A remote call of the request raises in this step.
Fails(r) == req[r].pc \in RemoteSteps /\ req'[r].pc = "done" /\ req'[r].status = 500

\* C8: a remote step that fails ends the request with 500 and the error text
\* and leaves folders, files and rows exactly as they were (nothing is rolled
\* back); a row is added only by a request that succeeds; and a request that
\* has ended runs no further step: its worker only takes up a new request.
C8_FailureKeepsEffects ==
    [][/\ \A r \in Workers :
             Fails(r) =>
                 /\ req'[r].error.msg # ""
                 /\ folders' = folders /\ driveFiles' = driveFiles /\ sheet' = sheet
       /\ sheet' # sheet => \E r \in Workers : Succeeds(r)
       /\ \A r \in Workers :
             (req[r].pc = "done" /\ req'[r] # req[r]) =>
                 /\ req'[r].pc \in {"drive", "done"} /\ req'[r].calls = 0
                 /\ UNCHANGED <<folders, driveFiles, sheet>>]_vars

\* The sheets service failed after the folder was created and the file
\* uploaded: 500, no row, and the folder and the file are still there.
C8_Witness ==
    \E r \in Workers :
        /\ req[r].pc = "done" /\ req[r].status = 500
        /\ req[r].error.msg \in {"sheets", "append"}
        /\ \E d \in folders : d.id = req[r].folder_id /\ d.name = req[r].folder_name
        /\ \E f \in driveFiles :
              Link(f.id) = req[r].links["transcript1"] /\ f.parent = req[r].folder_id
        /\ sheet = <<>>

\* C9: the creation step does not look again: it adds a folder of the
\* request's name under a new id whether or not a folder of that name exists by
\* then, and the request goes on with the new id.
C9_CreateDoesNotRecheck ==
    [][\A r \in Workers :
          (req[r].pc = "create_folder" /\ req'[r].pc \notin {"create_folder", "done"}) =>
              /\ req'[r].folder_id \notin {d.id : d \in folders}
              /\ folders' = folders \cup
                     {[id |-> req'[r].folder_id, name |-> req[r].folder_name]}]_vars

\* Two overlapping requests of one student both found no folder and both
\* created one: two folders of one name, and the two files in different folders.
C9_Witness ==
    \E r1, r2 \in Workers :
        /\ r1 # r2
        /\ req[r1].pc = "done" /\ req[r1].status = 200
        /\ req[r2].pc = "done" /\ req[r2].status = 200
        /\ req[r1].folder_name = req[r2].folder_name
        /\ req[r1].folder_id # req[r2].folder_id
        /\ \E d1, d2 \in folders :
              /\ d1.id = req[r1].folder_id /\ d2.id = req[r2].folder_id
              /\ d1.name = d2.name
        /\ \E f1, f2 \in driveFiles :
              /\ f1.parent = req[r1].folder_id /\ f2.parent = req[r2].folder_id
              /\ Link(f1.id) = req[r1].links["transcript1"]
              /\ Link(f2.id) = req[r2].links["transcript1"]
        /\ folders = {[id |-> req[r1].folder_id, name |-> req[r1].folder_name],
                      [id |-> req[r2].folder_id, name |-> req[r2].folder_name]}

\* A name component with every space and slash replaced by an underscore.
Normal(x) == [i \in 1..Len(x) |-> IF x[i] \in {" ", "/"} THEN "_" ELSE x[i]]

\* The identity fields with each component normalised.
NormalTuple(f) == [k \in DOMAIN f |-> Normal(f[k])]

\* No component holds a space, a slash or an underscore.
SeparatorFree(f) == \A k \in DOMAIN f : Range(f[k]) \cap {" ", "/", "_"} = {}

\* C5 as stated: identity fields that yield the key computed here are equal to
\* the ones it was computed from, once every space and slash of each component
\* is replaced by an underscore.
C5_InjectiveUpToNormalisation ==
    \A r \in Workers :
        req[r].pc = "named" =>
            \A g \in KeyFields :
                make_folder_name(g) = req[r].folder_name =>
                    NormalTuple(g) = NormalTuple(req[r].fields)

\* C5 amended: identity fields equal after normalisation yield the same key,
\* and among identity fields whose components hold no space, slash or
\* underscore the same key is yielded by equal fields only.
C5_InjectiveOnSeparatorFree ==
    \A r \in Workers :
        req[r].pc = "named" =>
            \A g \in KeyFields :
                /\ NormalTuple(g) = NormalTuple(req[r].fields) =>
                      make_folder_name(g) = req[r].folder_name
                /\ (SeparatorFree(g) /\ SeparatorFree(req[r].fields)
                        /\ make_folder_name(g) = req[r].folder_name) =>
                      g = req[r].fields

\* A key computed from a last name ending in a space: fields with the space
\* moved to the first name yield it too, and so do fields that normalise to
\* the same.
C5_Witness ==
    \E r \in Workers :
        /\ req[r].pc = "named"
        /\ req[r].fields["lastName"] = <<"a", " ">>
        /\ req[r].fields["firstName"] = <<"a">>
        /\ req[r].folder_name = <<"a", "_", "_", "a", "_", "M", "_", "S">>
        /\ \E g \in KeyFields :
              /\ g["lastName"] = <<"a">> /\ g["firstName"] = <<" ", "a">>
              /\ make_folder_name(g) = req[r].folder_name
        /\ \E g \in KeyFields :
              /\ g # req[r].fields /\ NormalTuple(g) = NormalTuple(req[r].fields)
              /\ make_folder_name(g) = req[r].folder_name

====
